---- MODULE Spec2Model ----
(***************************************************************************)
(* Model of the price-comparison scraper: the MasterScraper orchestrator   *)
(* (master_scraper.py) running the Dockers, Amazon, JCPenney and Macy's    *)
(* adapters in four threads and collecting their results.                  *)
(*                                                                         *)
(* Python values: None is the empty tuple <<>> and an optional value v is  *)
(* the one-element tuple <<v>>; prices are amounts in cents.               *)
(***************************************************************************)
EXTENDS Integers, Sequences, FiniteSets, TLC

(***************************************************************************)
(* Bounds of the model.                                                    *)
(***************************************************************************)
\* calls of run_all_scrapers made on the one MasterScraper
MaxRuns == 2
\* exceptions that escape a search adapter, over the whole behaviour
MaxEscapes == 1
\* calls of run_all_scrapers in the behaviours checked for progress
MaxLiveRuns == 1
\* product links on a search page
MaxLinks == 4
\* price spans in the price container of the Dockers page
MaxSpans == 2

None == <<>>
Some(v) == <<v>>

VARIABLES
    site,         \* what the retailers' sites serve
    results,      \* self.results
    errors,       \* self.errors
    mainpc,       \* where the caller of run_all_scrapers is
    idx,          \* position of the start loop / join loop in threads
    tpc,          \* per thread: "new", "running", "called", "done"
    frame,        \* per thread: the outcome of its adapter call, until it is stored
    dockers_url,  \* argument of the current run_all_scrapers call
    search_term,  \* argument of the current run_all_scrapers call
    runs,         \* run_all_scrapers calls made so far
    escapes,      \* exceptions that escaped a search adapter so far
    met,          \* per thread: what its request met in this run
    called,       \* per thread: the outcome of its adapter call in this run
    results0,     \* self.results when the current run was entered
    errors0,      \* self.errors when the current run was entered
    writes,       \* per key of results: the threads that wrote its list in this run
    ret           \* the last call made from outside a run, and its outcome

vars == <<site, results, errors, mainpc, idx, tpc, frame, dockers_url, search_term,
          runs, escapes, met, called, results0, errors0, writes, ret>>

(***************************************************************************)
(* The retailers' sites, as the adapters see them.                         *)
(***************************************************************************)
\* the per-source keys of MasterScraper.results, in the order of __init__
Sources == <<"dockers", "amazon", "jcpenney", "macys">>
SourceSet == {Sources[i] : i \in 1..Len(Sources)}
ListingSources == {"amazon", "jcpenney", "macys"}

\* the site prefix a search adapter puts before a relative href
BaseUrl(s) ==
    CASE s = "amazon" -> "https://www.amazon.com"
      [] s = "jcpenney" -> "https://www.jcpenney.com"
      [] OTHER -> "https://www.macys.com"

\* arguments run_all_scrapers is called with
DockersUrls == {"https://us.dockers.com/products/a"}
SearchTerms == {"Dockers Khakis"}

\* the hrefs of product links, and the product URLs they stand for
Hrefs == {"/p1", "/p2", "/p3", "/p4"}
Urls == {BaseUrl(s) \o h : s \in ListingSources, h \in Hrefs}

\* A product page: the response status and, for a good response, what the
\* selectors find in the markup.  prices and originals are the values
\* extract_price gives for the elements the price selectors match, in the
\* order of the selector list.
GoodPage(title, prices, originals, avail) ==
    [status |-> "ok", title |-> title, prices |-> prices, originals |-> originals,
     avail |-> avail]
FailedPage(status) ==
    [status |-> status, title |-> None, prices |-> <<>>, originals |-> <<>>,
     avail |-> "absent"]

\* what a request or the parsing can meet other than success
Failures == {"http_error", "timeout", "conn_error", "parse_error"}

\* The Dockers product page: spans are the values extract_price gives for the
\* '$' spans of the price container, meta is None without the price meta tag
\* and Some(value of extract_price on its content) with it, oos tells whether
\* the out-of-stock selector matches, availmeta is the content of the
\* availability meta tag.
DockersPage(status, spans, meta, oos, availmeta) ==
    [status |-> status, spans |-> spans, meta |-> meta, oos |-> oos,
     availmeta |-> availmeta]

\* the product links a retailer's search page carries, in document order
SearchPageLinks(s) == site.links[s]

\* what a GET of a product page yields; a URL the site does not know is
\* answered with an HTTP error status
ProductPage(url) ==
    IF url \in DOMAIN site.page THEN site.page[url] ELSE FailedPage("http_error")

\* the product links of the three search pages every run of the orchestrator
\* sees, and the product pages they link to
TheLinks ==
    [s \in ListingSources |->
        CASE s = "amazon" -> <<"/p1", "/p2">>
          [] s = "jcpenney" -> <<"/p2", "/p2">>
          [] OTHER -> <<"/p1">>]
LinkedUrls ==
    UNION {{BaseUrl(s) \o TheLinks[s][i] : i \in DOMAIN TheLinks[s]} : s \in ListingSources}

\* the site every run of the orchestrator sees
TheSite ==
    [links |-> TheLinks,
     page |-> [u \in LinkedUrls |->
                  IF u \in {BaseUrl(s) \o "/p1" : s \in ListingSources}
                  THEN GoodPage(Some("Dockers Khaki A"), <<Some(2999)>>, <<Some(4999)>>,
                                "in stock")
                  ELSE FailedPage("http_error")],
     dockers |-> DockersPage("ok", <<Some(4999)>>, None, FALSE, "InStock")]

(***************************************************************************)
(* Search adapters: amazon_scraper.py, jcpenney_scraper.py,                *)
(* macys_scraper.py.                                                       *)
(***************************************************************************)
\* the slice product_links[:3]
DetailLimit == 3

Min(a, b) == IF a < b THEN a ELSE b

\* the elements of a sequence
Range(q) == {q[i] : i \in 1..Len(q)}

\* the outcome of a call, as its caller sees it
Returned(v) == [kind |-> "ret", val |-> v]
Raised(msg) == [kind |-> "exc", msg |-> msg]

\* Python truth of an optional amount: None and 0.0 are false
Truthy(price) == price # None /\ price[1] # 0

\* "for selector in [...]: tag = soup.select_one(selector); if tag: price =
\* extract_price(...); if price: break", over the values found from position i
\* on; price is the value the loop holds so far
RECURSIVE SelectorLoop(_, _, _)
SelectorLoop(found, i, price) ==
    IF i > Len(found) THEN price
    ELSE IF Truthy(found[i]) THEN found[i]
    ELSE SelectorLoop(found, i + 1, found[i])

\* availability text -> result['availability']; the default when the element
\* is missing or its text matches neither phrase is 'Check Site'
Availability(avail) ==
    CASE avail = "in stock" -> "In Stock"
      [] avail = "out of stock" -> "Out of Stock"
      [] OTHER -> "Check Site"

\* the exception a failed request or a failed parse raises in the try block
ExceptionOf(status) ==
    CASE status = "http_error" -> "HTTPError"
      [] status = "timeout" -> "Timeout"
      [] status = "conn_error" -> "ConnectionError"
      [] OTHER -> "AttributeError"

\* result['error'] as the except clause that caught the exception sets it
ErrorText(clause, exception) ==
    CASE clause = "HTTPError" -> "HTTP 503"
      [] clause = "Timeout" -> "Request Timeout"
      [] OTHER -> exception

\* scrape_<retailer>_product with "except Exception" left out
ProductExceptClauses_NoCatchAll == <<"HTTPError", "Timeout">>

\* the except clauses of scrape_<retailer>_product, in order
ProductExceptClauses == <<"HTTPError", "Timeout", "Exception">>

\* every exception of the model derives from Exception
Handles(clause, exception) == clause = exception \/ clause = "Exception"

\* the first except clause that matches, 0 when none does
RECURSIVE Handler(_, _, _)
Handler(clauses, exception, i) ==
    IF i > Len(clauses) THEN 0
    ELSE IF Handles(clauses[i], exception) THEN i
    ELSE Handler(clauses, exception, i + 1)

\* a failure path that also clears the url
FailureRecord_NoUrl(result, text) == [result EXCEPT !.error = Some(text), !.url = None]

\* the record a failure path returns: the initial result with 'error' set
FailureRecord(result, text) == [result EXCEPT !.error = Some(text)]

\* scrape_<retailer>_product(url): the three functions differ only in the
\* retailer name and the selector lists
scrape_retailer_product(retailer, url) ==
    LET page == ProductPage(url)
        result == [retailer |-> Some(retailer), name |-> None, price |-> None,
                   original_price |-> None, availability |-> "Unknown",
                   url |-> Some(url), error |-> None]
        h == Handler(ProductExceptClauses, ExceptionOf(page.status), 1)
    IN  IF page.status = "ok"
        THEN Returned([result EXCEPT
                 !.name = IF page.title \in {None, Some("")} THEN Some("Unknown")
                          ELSE page.title,
                 !.price = SelectorLoop(page.prices, 1, None),
                 !.original_price = SelectorLoop(page.originals, 1, None),
                 !.availability = Availability(page.avail)])
        ELSE IF h = 0 THEN Raised(ExceptionOf(page.status))
        ELSE Returned(FailureRecord(result,
                          ErrorText(ProductExceptClauses[h], ExceptionOf(page.status))))

scrape_amazon_product(url) == scrape_retailer_product("Amazon", url)
scrape_jcpenney_product(url) == scrape_retailer_product("JCPenney", url)
scrape_macys_product(url) == scrape_retailer_product("Macy's", url)

\* list(a_set): the elements in an order the hash seed decides
ListsOfSet(S) ==
    {q \in [1..Cardinality(S) -> S] : \A i, j \in 1..Cardinality(S) : q[i] = q[j] => i = j}

\* href -> absolute link, as each search loop does
AbsoluteLinks(base, hrefs) == [i \in 1..Len(hrefs) |-> base \o hrefs[i]]

\* a loop over every link
FirstLinks_All(product_links) == product_links

\* the slice product_links[:3]
FirstLinks(product_links) == SubSeq(product_links, 1, Min(DetailLimit, Len(product_links)))

\* a loop that stops at the first record carrying an error
RECURSIVE DetailLoop_StopOnError(_, _, _, _)
DetailLoop_StopOnError(retailer, links, i, products) ==
    IF i > Len(links) THEN [products |-> products, raised |-> None]
    ELSE LET o == scrape_retailer_product(retailer, links[i])
         IN  IF o.kind = "exc" THEN [products |-> products, raised |-> Some(o.msg)]
             ELSE IF o.val.error # None
             THEN [products |-> Append(products, o.val), raised |-> None]
             ELSE DetailLoop_StopOnError(retailer, links, i + 1, Append(products, o.val))

\* "for i, link in enumerate(product_links[:3], 1): product = scrape(link);
\* products.append(product)" from position i on: the list built, and the
\* exception that ended the loop if one did
RECURSIVE DetailLoop(_, _, _, _)
DetailLoop(retailer, links, i, products) ==
    IF i > Len(links) THEN [products |-> products, raised |-> None]
    ELSE LET o == scrape_retailer_product(retailer, links[i])
         IN  IF o.kind = "exc" THEN [products |-> products, raised |-> Some(o.msg)]
             ELSE DetailLoop(retailer, links, i + 1, Append(products, o.val))

\* the try block of a search function for the links it collected; response
\* is what the search request met: "ok", or "search_fail" (the GET or
\* raise_for_status raised, products still empty)
SearchTry(retailer, response, product_links) ==
    IF response = "search_fail" THEN [products |-> <<>>, raised |-> Some("HTTPError")]
    ELSE DetailLoop(retailer, FirstLinks(product_links), 1, <<>>)

\* a search function without its "except Exception" clause
SearchReturn_Reraise(try) ==
    IF try.raised = None THEN Returned(try.products) ELSE Raised("HTTP 503")

\* "except Exception as e: logger.error(...)" followed by "return products"
SearchReturn(try) == Returned(try.products)

\* What a search call can hand back to its caller: the set of outcomes the
\* call may have.

\* the links are kept in a list, in document order
search_amazon_dockers(response) ==
    {SearchReturn(SearchTry("Amazon", response,
                            AbsoluteLinks(BaseUrl("amazon"), SearchPageLinks("amazon"))))}

\* the links are collected in a set and turned back into a list
search_jcpenney_dockers(response) ==
    {SearchReturn(SearchTry("JCPenney", response, l)) :
        l \in ListsOfSet(Range(AbsoluteLinks(BaseUrl("jcpenney"), SearchPageLinks("jcpenney"))))}

search_macys_dockers(response) ==
    {SearchReturn(SearchTry("Macy's", response, l)) :
        l \in ListsOfSet(Range(AbsoluteLinks(BaseUrl("macys"), SearchPageLinks("macys"))))}

(***************************************************************************)
(* Dockers adapter: Dockers_scraper.py.                                    *)
(***************************************************************************)
PRODUCT_URL == "https://us.dockers.com/products/signature-iron-free-khakis"

\* number of arguments in the call "scrape_product(url)" of scrape_dockers
scrape_product_args == 1

\* a scrape_product that takes the url
scrape_product_params_AsCalled == scrape_product_args

\* number of parameters in "def scrape_product() -> Optional[Dict]"
scrape_product_params == 0

TypeErrorText == "scrape_product() takes 0 positional arguments but 1 was given"

\* "for span in price_spans" from position i on: the first '$' span read
\* while current_price is false sets current_price, a later one read while
\* original_price is false sets original_price
RECURSIVE PriceSpans(_, _, _, _)
PriceSpans(spans, i, current_price, original_price) ==
    IF i > Len(spans) THEN [current_price |-> current_price, original_price |-> original_price]
    ELSE IF ~Truthy(current_price)
    THEN PriceSpans(spans, i + 1, spans[i], original_price)
    ELSE IF ~Truthy(original_price) /\ original_price # current_price
    THEN PriceSpans(spans, i + 1, current_price, spans[i])
    ELSE PriceSpans(spans, i + 1, current_price, original_price)

\* hundredths of a percent in 100 percent
Hundredths == 10000

\* round(n / d * 100, 2) in hundredths of a percent, for n >= 0 and d > 0: the
\* nearest hundredth, the even one when n / d lies halfway.  The code rounds
\* the binary float; the model rounds the exact quotient.
RoundPercent(n, d) ==
    LET q == (n * Hundredths) \div d
        r == (n * Hundredths) % d
    IN  IF 2 * r > d \/ (2 * r = d /\ q % 2 = 1) THEN q + 1 ELSE q

\* a sale test that also takes equal prices
OnSale_OrEqual(current_price, original_price) ==
    original_price # None /\ current_price # None /\ current_price[1] <= original_price[1]

\* product_data['is_on_sale']
OnSale(current_price, original_price) ==
    original_price # None /\ current_price # None /\ current_price[1] < original_price[1]

\* availability: "In Stock" unless the out-of-stock selector matches; the
\* availability meta tag, when it names a state, decides
DockersAvailability(oos, availmeta) ==
    CASE availmeta = "OutOfStock" -> "Out of Stock"
      [] availmeta = "InStock" -> "In Stock"
      [] OTHER -> IF oos THEN "Out of Stock" ELSE "In Stock"

\* the try block of scrape_product for the page PRODUCT_URL serves: the
\* dictionary built, or the exception raised on the way
ScrapeProductTry(page) ==
    IF page.status # "ok" THEN Raised(ExceptionOf(page.status))
    ELSE LET p == PriceSpans(page.spans, 1, None, None)
             current_price == IF ~Truthy(p.current_price) /\ page.meta # None
                              THEN page.meta[1] ELSE p.current_price
             original_price == p.original_price
             is_on_sale == OnSale(current_price, original_price)
         IN  IF is_on_sale /\ original_price[1] = 0 THEN Raised("ZeroDivisionError")
             ELSE Returned(
                [name |-> Some("Signature Iron Free Khakis"), subtitle |-> None,
                 current_price |-> current_price, original_price |-> original_price,
                 discount_percentage |->
                     IF is_on_sale
                     THEN Some(RoundPercent(original_price[1] - current_price[1],
                                            original_price[1]))
                     ELSE None,
                 url |-> Some(PRODUCT_URL),
                 availability |-> DockersAvailability(page.oos, page.availmeta),
                 is_on_sale |-> is_on_sale])

\* scrape_product: both except clauses return None
scrape_product(page) ==
    LET try == ScrapeProductTry(page)
    IN  IF try.kind = "ret" THEN Returned(try.val) ELSE Returned(None)

\* the call scrape_product(url) made by MasterScraper.scrape_dockers: Python
\* binds the arguments before the body runs and raises TypeError on a mismatch
CallScrapeProduct(url, page) ==
    IF scrape_product_args # scrape_product_params
    THEN Raised(TypeErrorText)
    ELSE scrape_product(page)

(***************************************************************************)
(* MasterScraper: master_scraper.py.                                       *)
(***************************************************************************)
\* the list threads of run_all_scrapers, by thread name
threads == <<"DockersScraper", "AmazonScraper", "JCPenneyScraper", "MacysScraper">>
ThreadSet == Range(threads)

\* target= of each thread
Target(t) ==
    CASE t = "DockersScraper" -> "scrape_dockers"
      [] t = "AmazonScraper" -> "scrape_amazon"
      [] t = "JCPenneyScraper" -> "scrape_jcpenney"
      [] OTHER -> "scrape_macys"

\* scrape_macys writing the JCPenney list
ResultKey_Crossed(target) ==
    CASE target = "scrape_dockers" -> "dockers"
      [] target = "scrape_amazon" -> "amazon"
      [] OTHER -> "jcpenney"

\* every search method writing the Amazon list
ResultKey_Shared(target) ==
    IF target = "scrape_dockers" THEN "dockers" ELSE "amazon"

\* the key of self.results each scrape_* method writes
ResultKey(target) ==
    CASE target = "scrape_dockers" -> "dockers"
      [] target = "scrape_amazon" -> "amazon"
      [] target = "scrape_jcpenney" -> "jcpenney"
      [] OTHER -> "macys"

\* the retailer each scrape_* method names in self.errors
ErrorName(target) ==
    CASE target = "scrape_dockers" -> "Dockers"
      [] target = "scrape_amazon" -> "Amazon"
      [] target = "scrape_jcpenney" -> "JCPenney"
      [] OTHER -> "Macy's"

\* __init__ without the 'macys' entry
InitResults_MissingKey ==
    [dockers |-> <<>>, amazon |-> <<>>, jcpenney |-> <<>>,
     timestamp |-> None, search_term |-> None]

\* self.results as __init__ builds it
InitResults ==
    [dockers |-> <<>>, amazon |-> <<>>, jcpenney |-> <<>>, macys |-> <<>>,
     timestamp |-> None, search_term |-> None]

NoFrame == [kind |-> "none"]
NoCall == [fn |-> "none"]

\* a MasterScraper as __init__ leaves it, no run made
MasterInit ==
    /\ results = InitResults
    /\ errors = <<>>
    /\ mainpc = "idle"
    /\ idx = 1
    /\ tpc = [t \in ThreadSet |-> "new"]
    /\ frame = [t \in ThreadSet |-> NoFrame]
    /\ dockers_url = None
    /\ search_term = None
    /\ runs = 0
    /\ escapes = 0
    /\ met = [t \in ThreadSet |-> "nothing"]
    /\ called = [t \in ThreadSet |-> NoFrame]
    /\ results0 = InitResults
    /\ errors0 = <<>>
    /\ writes = [s \in SourceSet |-> <<>>]
    /\ ret = NoCall

Init == site = TheSite /\ MasterInit

\* the new records added last first
list_extend_Reversed(lst, xs) == lst \o [i \in 1..Len(xs) |-> xs[Len(xs) + 1 - i]]

\* list.append, list.extend
list_append(lst, x) == Append(lst, x)
list_extend(lst, xs) == lst \o xs

\* an except clause that only logs
except_Exception_Swallow(errs, retailer, msg) == errs

\* an append that is not atomic: the entry is added to the list as the thread
\* read it when the run began, and the result written back
except_Exception_Stale(errs, retailer, msg) == Append(errors0, <<retailer, msg>>)

\* "except Exception as e": self.errors.append((retailer, str(e)))
except_Exception(errs, retailer, msg) == Append(errs, <<retailer, msg>>)

\* an exception that leaves a search function: one raised outside its try block
EscapeText == "adapter failure"

\* the adapter call inside the try block of a scrape_* method; choices is a set
\* of pairs <<what the request met, outcome of the call>>
TryCall(t, choices) ==
    /\ tpc[t] = "running"
    /\ \E c \in choices :
         /\ c[1] = "escape" => escapes < MaxEscapes
         /\ met' = [met EXCEPT ![t] = c[1]]
         /\ frame' = [frame EXCEPT ![t] = c[2]]
         /\ called' = [called EXCEPT ![t] = c[2]]
         /\ escapes' = IF c[1] = "escape" THEN escapes + 1 ELSE escapes
    /\ tpc' = [tpc EXCEPT ![t] = "called"]
    /\ UNCHANGED <<site, results, errors, mainpc, idx, dockers_url, search_term, runs,
                   results0, errors0, writes, ret>>

\* the rest of a scrape_* method: the list write (how is "append" or
\* "extend"), or the except clause
Finish(t, how) ==
    LET key == ResultKey(Target(t)) IN
    /\ tpc[t] = "called"
    /\ IF frame[t].kind = "ret"
       THEN /\ results' = [results EXCEPT ![key] =
                              IF how = "append" THEN list_append(@, frame[t].val)
                                                ELSE list_extend(@, frame[t].val)]
            /\ writes' = [writes EXCEPT ![key] = Append(@, t)]
            /\ UNCHANGED errors
       ELSE /\ errors' = except_Exception(errors, ErrorName(Target(t)), frame[t].msg)
            /\ UNCHANGED <<results, writes>>
    /\ tpc' = [tpc EXCEPT ![t] = "done"]
    /\ frame' = [frame EXCEPT ![t] = NoFrame]
    /\ UNCHANGED <<site, mainpc, idx, dockers_url, search_term, runs, escapes, met,
                   called, results0, errors0, ret>>

\* the outcomes of a search call, with what the request met: ok and failed
\* are the outcomes of the search function for a good and a failed request
SearchChoices(ok, failed) ==
    {<<"escape", Raised(EscapeText)>>}
        \cup {<<"ok", o>> : o \in ok} \cup {<<"search_fail", o>> : o \in failed}

scrape_dockers ==
    \E t \in ThreadSet :
       /\ Target(t) = "scrape_dockers"
       /\ \/ TryCall(t, {<<st, CallScrapeProduct(dockers_url, [site.dockers EXCEPT !.status = st])>> :
                             st \in {"ok", "http_error"}})
          \/ Finish(t, "append")

scrape_amazon ==
    \E t \in ThreadSet :
       /\ Target(t) = "scrape_amazon"
       /\ \/ TryCall(t, SearchChoices(search_amazon_dockers("ok"),
                                       search_amazon_dockers("search_fail")))
          \/ Finish(t, "extend")

scrape_jcpenney ==
    \E t \in ThreadSet :
       /\ Target(t) = "scrape_jcpenney"
       /\ \/ TryCall(t, SearchChoices(search_jcpenney_dockers("ok"),
                                       search_jcpenney_dockers("search_fail")))
          \/ Finish(t, "extend")

scrape_macys ==
    \E t \in ThreadSet :
       /\ Target(t) = "scrape_macys"
       /\ \/ TryCall(t, SearchChoices(search_macys_dockers("ok"),
                                       search_macys_dockers("search_fail")))
          \/ Finish(t, "extend")

\* run_all_scrapers up to the construction of the thread list
run_all_scrapers ==
    /\ mainpc \in {"idle", "returned"}
    /\ runs < MaxRuns
    /\ \E url \in DockersUrls, term \in SearchTerms :
         /\ dockers_url' = Some(url)
         /\ search_term' = Some(term)
         /\ results' = [results EXCEPT !.search_term = Some(term),
                                       !.timestamp = Some(runs + 1)]
         /\ results0' = results
    /\ runs' = runs + 1
    /\ errors0' = errors
    /\ tpc' = [t \in ThreadSet |-> "new"]
    /\ frame' = [t \in ThreadSet |-> NoFrame]
    /\ met' = [t \in ThreadSet |-> "nothing"]
    /\ called' = [t \in ThreadSet |-> NoFrame]
    /\ writes' = [s \in SourceSet |-> <<>>]
    /\ mainpc' = "start"
    /\ idx' = 1
    /\ ret' = NoCall
    /\ UNCHANGED <<site, errors, escapes>>

\* a start loop that leaves the last thread out
StartList_Short == SubSeq(threads, 1, Len(threads) - 1)

\* the threads the start loop goes through
StartList == threads

\* "for thread in threads: thread.start()", one iteration
thread_start ==
    /\ mainpc = "start"
    /\ tpc' = [tpc EXCEPT ![StartList[idx]] = "running"]
    /\ IF idx < Len(StartList)
       THEN idx' = idx + 1 /\ UNCHANGED mainpc
       ELSE idx' = 1 /\ mainpc' = "join"
    /\ UNCHANGED <<site, results, errors, frame, dockers_url, search_term, runs, escapes,
                   met, called, results0, errors0, writes, ret>>

\* a join that does not wait
Terminated_NoWait(t) == TRUE

\* Thread.join returns once the thread has terminated
Terminated(t) == tpc[t] = "done"

\* "for thread in threads: thread.join()", one iteration; joining a thread
\* that was never started raises RuntimeError
thread_join ==
    /\ mainpc = "join"
    /\ tpc[threads[idx]] # "new" => Terminated(threads[idx])
    /\ IF tpc[threads[idx]] = "new"
       THEN mainpc' = "raised" /\ UNCHANGED idx
       ELSE IF idx < Len(threads)
            THEN idx' = idx + 1 /\ UNCHANGED mainpc
            ELSE idx' = 1 /\ mainpc' = "returned"
    /\ UNCHANGED <<site, results, errors, tpc, frame, dockers_url, search_term, runs,
                   escapes, met, called, results0, errors0, writes, ret>>

\* product.get(key) on a dictionary: None for a key it does not have
DictGet(product, key) == IF key \in DOMAIN product THEN product[key] ELSE None

\* the retailer keys in the order the aggregate methods go through them
AggregateOrder == <<"dockers", "amazon", "jcpenney", "macys">>

\* "for retailer in [...]: for product in self.results[retailer]" from the
\* i-th retailer on: every element with the key of its list
RECURSIVE Flatten(_, _)
Flatten(res, i) ==
    IF i > Len(AggregateOrder) THEN <<>>
    ELSE [j \in 1..Len(res[AggregateOrder[i]]) |->
             [retailer_key |-> AggregateOrder[i], product |-> res[AggregateOrder[i]][j]]]
         \o Flatten(res, i + 1)

\* a filter that keeps every price that is not None
HasPrice_NotNone(product) == DictGet(product, "price") # None

\* "if product.get('price')"
HasPrice(product) == Truthy(DictGet(product, "price"))

\* the elements the loops keep
Priced(all) ==
    LET Keep(e) == HasPrice(e.product) IN SelectSeq(all, Keep)

\* the sort key x.get('price', float('inf')) of a kept product
PriceKey(product) == DictGet(product, "price")[1]

\* {**product, 'retailer_key': retailer}
WithRetailerKey(product, retailer) ==
    [k \in DOMAIN product \cup {"retailer_key"} |->
        IF k = "retailer_key" THEN retailer ELSE product[k]]

\* a scan that takes a later element of equal price
RECURSIVE MinByPrice_Last(_, _, _)
MinByPrice_Last(all, i, best) ==
    IF i > Len(all) THEN best
    ELSE IF PriceKey(all[i].product) <= PriceKey(best.product)
    THEN MinByPrice_Last(all, i + 1, all[i])
    ELSE MinByPrice_Last(all, i + 1, best)

\* min(all_products, key=...) from position i on: an element replaces the
\* best one so far only when its key is smaller
RECURSIVE MinByPrice(_, _, _)
MinByPrice(all, i, best) ==
    IF i > Len(all) THEN best
    ELSE IF PriceKey(all[i].product) < PriceKey(best.product)
    THEN MinByPrice(all, i + 1, all[i])
    ELSE MinByPrice(all, i + 1, best)

\* an insertion before the elements of equal price
InsertByPrice_Before(sorted, product) ==
    LET k == Cardinality({j \in 1..Len(sorted) : PriceKey(sorted[j]) < PriceKey(product)})
    IN  SubSeq(sorted, 1, k) \o <<product>> \o SubSeq(sorted, k + 1, Len(sorted))

\* product put into an ascending list after the elements whose price is not
\* larger
InsertByPrice(sorted, product) ==
    LET k == Cardinality({j \in 1..Len(sorted) : PriceKey(sorted[j]) <= PriceKey(product)})
    IN  SubSeq(sorted, 1, k) \o <<product>> \o SubSeq(sorted, k + 1, Len(sorted))

\* sorted(all_products, key=...): ascending, elements of equal key in their
\* order in all_products
RECURSIVE SortedByPrice(_, _, _)
SortedByPrice(all, i, sorted) ==
    IF i > Len(all) THEN sorted
    ELSE SortedByPrice(all, i + 1, InsertByPrice(sorted, all[i]))

\* what get_lowest_price does on self.results = res; product.get on an
\* element that is None raises AttributeError
LowestPrice(res) ==
    LET all == Flatten(res, 1)
        all_products == Priced(all)
    IN  IF \E i \in 1..Len(all) : all[i].product = None
        THEN Raised("AttributeError")
        ELSE IF all_products # <<>>
        THEN LET lowest == MinByPrice(all_products, 2, all_products[1])
             IN  Returned(WithRetailerKey(lowest.product, lowest.retailer_key))
        ELSE Returned(None)

\* what get_price_comparison does on self.results = res
PriceComparison(res) ==
    LET all == Flatten(res, 1)
        all_products == Priced(all)
    IN  IF \E i \in 1..Len(all) : all[i].product = None
        THEN Raised("AttributeError")
        ELSE Returned(SortedByPrice([i \in 1..Len(all_products) |-> all_products[i].product],
                                    1, <<>>))

\* an aggregate method that writes retailer_key into the products of
\* self.results instead of into copies
AggregateCall_InPlace(fn, out) ==
    /\ mainpc \in {"idle", "returned"}
    /\ ret' = [fn |-> fn, out |-> out]
    /\ results' = [k \in DOMAIN results |->
                     IF k \in SourceSet
                     THEN [i \in 1..Len(results[k]) |->
                             IF results[k][i] # None /\ HasPrice(results[k][i])
                             THEN WithRetailerKey(results[k][i], k)
                             ELSE results[k][i]]
                     ELSE results[k]]
    /\ UNCHANGED <<site, errors, mainpc, idx, tpc, frame, dockers_url,
                   search_term, runs, escapes, met, called, results0, errors0, writes>>

\* a call of an aggregate method by the code that made the runs
AggregateCall(fn, out) ==
    /\ mainpc \in {"idle", "returned"}
    /\ ret' = [fn |-> fn, out |-> out]
    /\ UNCHANGED <<site, results, errors, mainpc, idx, tpc, frame, dockers_url,
                   search_term, runs, escapes, met, called, results0, errors0, writes>>

get_lowest_price == AggregateCall("get_lowest_price", LowestPrice(results))

get_price_comparison == AggregateCall("get_price_comparison", PriceComparison(results))


(***************************************************************************)
(* save_results.  A JSON document is a tree of null, scalars, arrays and   *)
(* objects; the file written is kept in the call's record.                 *)
(***************************************************************************)
JsonNull == [json |-> "null"]

JsonScalar(v) == [json |-> "scalar", value |-> v]

\* json.dump of None or a string or number
DumpOptional(v) == IF v = None THEN JsonNull ELSE JsonScalar(v[1])

\* the keys of a product dict whose value is never None
PlainKeys == {"availability", "is_on_sale"}

\* json.dump of a product dict, or of the None scrape_product can return
DumpProduct(product) ==
    IF product = None THEN JsonNull
    ELSE [json |-> "object",
          members |-> [k \in DOMAIN product |->
                         IF k \in PlainKeys THEN JsonScalar(product[k])
                         ELSE DumpOptional(product[k])]]

DumpList(products) ==
    [json |-> "array",
     items |-> [i \in 1..Len(products) |-> DumpProduct(products[i])]]

\* json.dump(self.results, f, indent=2)
json_dump(res) ==
    [json |-> "object",
     members |-> [k \in DOMAIN res |->
                    IF k \in SourceSet THEN DumpList(res[k])
                    ELSE DumpOptional(res[k])]]

LoadOptional(j) == IF j.json = "null" THEN None ELSE Some(j.value)

LoadProduct(j) ==
    IF j.json = "null" THEN None
    ELSE [k \in DOMAIN j.members |->
             IF k \in PlainKeys THEN j.members[k].value
             ELSE LoadOptional(j.members[k])]

LoadList(j) == [i \in 1..Len(j.items) |-> LoadProduct(j.items[i])]

\* json.load of a document save_results wrote
json_load(j) ==
    [k \in DOMAIN j.members |->
        IF j.members[k].json = "array" THEN LoadList(j.members[k])
        ELSE LoadOptional(j.members[k])]

\* the file name save_results makes up
Filename == "prices_TIMESTAMP.json"

\* save_results(): the file is written and its name returned, or open or
\* json.dump raises, the exception is logged and None is returned
save_results ==
    /\ mainpc \in {"idle", "returned"}
    /\ \/ ret' = [fn |-> "save_results", out |-> Some(Filename),
                  written |-> Some(json_dump(results))]
       \/ ret' = [fn |-> "save_results", out |-> None, written |-> None]
    /\ UNCHANGED <<site, results, errors, mainpc, idx, tpc, frame, dockers_url,
                   search_term, runs, escapes, met, called, results0, errors0, writes>>

Next ==
    \/ run_all_scrapers
    \/ thread_start
    \/ thread_join
    \/ scrape_dockers
    \/ scrape_amazon
    \/ scrape_jcpenney
    \/ scrape_macys
    \/ get_lowest_price
    \/ get_price_comparison
    \/ save_results

Spec == Init /\ [][Next]_vars

\* The caller makes at most MaxLiveRuns calls.
LiveNext ==
    \/ run_all_scrapers /\ runs < MaxLiveRuns
    \/ thread_start
    \/ thread_join
    \/ scrape_dockers
    \/ scrape_amazon
    \/ scrape_jcpenney
    \/ scrape_macys

\* While a started thread has a step to take, some thread takes one, and
\* every adapter call finishes: a thread has two steps in a run, so none is
\* left behind.  The caller keeps executing its loops.  Whether
\* run_all_scrapers is called again is up to the caller.
FairSpec ==
    /\ Init /\ [][LiveNext]_vars
    /\ WF_vars(thread_start)
    /\ WF_vars(thread_join)
    /\ WF_vars(scrape_dockers \/ scrape_amazon \/ scrape_jcpenney \/ scrape_macys)

(***************************************************************************)
(* Runs over sites with various prices, followed by the aggregate methods. *)
(***************************************************************************)
\* what a linked product page may be: not retrievable, without a price, or
\* with one of three prices
PricedPages ==
    {FailedPage("http_error"),
     GoodPage(Some("Dockers Khaki A"), <<>>, <<>>, "in stock")}
        \cup {GoodPage(Some("Dockers Khaki A"), <<Some(p)>>, <<>>, "in stock") :
                p \in {0, 1000, 2000}}

\* the sites of TheLinks whose linked pages are any of these
PricedSites == {[TheSite EXCEPT !.page = f] : f \in [LinkedUrls -> PricedPages]}

\* a site whose Amazon and JCPenney search pages carry more than DetailLimit
\* links, with repeated links on Amazon's and different ones on JCPenney's
LongSearchSite ==
    [TheSite EXCEPT !.links = [s \in ListingSources |->
        CASE s = "amazon" -> <<"/p1", "/p2", "/p1", "/p2">>
          [] s = "jcpenney" -> <<"/p1", "/p2", "/p3", "/p4">>
          [] OTHER -> <<"/p1">>]]

PricedInit == site \in PricedSites \cup {LongSearchSite} /\ MasterInit

\* every search request of these runs is answered
Answered == \A t \in ThreadSet : met'[t] \notin {"escape", "search_fail"}

PricedNext ==
    \/ run_all_scrapers /\ runs < MaxLiveRuns
    \/ thread_start
    \/ thread_join
    \/ scrape_dockers
    \/ scrape_amazon /\ Answered
    \/ scrape_jcpenney /\ Answered
    \/ scrape_macys /\ Answered
    \/ get_lowest_price
    \/ get_price_comparison
    \/ save_results

PricedSpec == PricedInit /\ [][PricedNext]_vars

(***************************************************************************)
(* The adapters' entry points called on their own, as each adapter's       *)
(* __main__ block calls them.                                              *)
(***************************************************************************)
\* sequences over S of at most n elements
SeqsUpTo(S, n) == UNION {[1..k -> S] : k \in 0..n}

\* what extract_price gives for a price text
Amounts == {None, Some(0), Some(3000), Some(4000), Some(4999), Some(5000)}

\* the pages PRODUCT_URL may serve
DockersPages ==
    {DockersPage("ok", spans, meta, FALSE, "absent") :
        spans \in SeqsUpTo(Amounts, MaxSpans), meta \in {None, Some(None), Some(Some(4000))}}
      \cup {DockersPage("ok", <<Some(4000)>>, None, oos, availmeta) :
              oos \in BOOLEAN, availmeta \in {"absent", "InStock", "OutOfStock", "other"}}
      \cup {DockersPage(f, <<>>, None, FALSE, "absent") : f \in Failures}

\* the product links of a search page
LinkLists == SeqsUpTo({"/p1", "/p2"}, MaxLinks) \cup {<<"/p1", "/p2", "/p3", "/p4">>}

\* sites whose product pages /p1 and /p2 answer or fail in every way
ListingSites ==
    {[links |-> [s \in ListingSources |-> l],
      page |-> [u \in Urls |->
                  CASE u \in {BaseUrl(s) \o "/p1" : s \in ListingSources} ->
                         IF f1 = "ok"
                         THEN GoodPage(Some("Dockers Khaki A"), <<Some(2999)>>,
                                       <<Some(4999)>>, "in stock")
                         ELSE FailedPage(f1)
                    [] u \in {BaseUrl(s) \o "/p2" : s \in ListingSources} ->
                         IF f2 = "ok" THEN GoodPage(None, <<Some(0), None>>, <<>>, "absent")
                         ELSE FailedPage(f2)
                    [] u \in {BaseUrl(s) \o "/p3" : s \in ListingSources} ->
                         GoodPage(Some("Dockers Khaki C"), <<Some(0), Some(1999)>>, <<>>,
                                  "out of stock")
                    [] OTHER -> FailedPage("http_error")],
      dockers |-> TheSite.dockers] :
        l \in LinkLists, f1 \in {"ok"} \cup Failures, f2 \in {"ok"} \cup Failures}

AdapterSites == ListingSites \cup {[TheSite EXCEPT !.dockers = p] : p \in DockersPages}

AdapterInit == site \in AdapterSites /\ MasterInit

\* a call of an entry point from outside a run
DirectCall(fn, arg, out) ==
    /\ ret' = [fn |-> fn, arg |-> arg, out |-> out]
    /\ UNCHANGED <<site, results, errors, mainpc, idx, tpc, frame, dockers_url,
                   search_term, runs, escapes, met, called, results0, errors0, writes>>

\* product = scrape_product() of Dockers_scraper's __main__
dockers_main == DirectCall("scrape_product", site.dockers, scrape_product(site.dockers))

\* single = scrape_<retailer>_product(url)
product_main ==
    \E s \in ListingSources, h \in Hrefs :
        DirectCall("scrape_retailer_product", <<s, BaseUrl(s) \o h>>,
                   CASE s = "amazon" -> scrape_amazon_product(BaseUrl(s) \o h)
                     [] s = "jcpenney" -> scrape_jcpenney_product(BaseUrl(s) \o h)
                     [] OTHER -> scrape_macys_product(BaseUrl(s) \o h))

\* results = search_<retailer>_dockers(...)
search_main ==
    \E s \in ListingSources, response \in {"ok", "search_fail"} :
        \E out \in CASE s = "amazon" -> search_amazon_dockers(response)
                     [] s = "jcpenney" -> search_jcpenney_dockers(response)
                     [] OTHER -> search_macys_dockers(response) :
            DirectCall("search_retailer_dockers", <<s, response>>, out)

AdapterNext == dockers_main \/ product_main \/ search_main

AdapterSpec == AdapterInit /\ [][AdapterNext]_vars

(***************************************************************************)
(* Price text parsing.  A text is a sequence of characters; an amount is   *)
(* the decimal number num / 10^places.                                     *)
(***************************************************************************)
MaxText == 3

Digits == {"1", "5"}

PriceChars == {"$", ",", "-", ".", " ", "x"} \cup Digits

Texts == SeqsUpTo(PriceChars, MaxText)

DigitValue(c) == IF c = "1" THEN 1 ELSE 5

RECURSIVE lstrip(_)
lstrip(s) == IF s # <<>> /\ Head(s) = " " THEN lstrip(Tail(s)) ELSE s

RECURSIVE rstrip(_)
rstrip(s) ==
    IF s # <<>> /\ s[Len(s)] = " " THEN rstrip(SubSeq(s, 1, Len(s) - 1)) ELSE s

\* str.strip()
strip(s) == rstrip(lstrip(s))

\* str.replace(old, '') for a one-character old
RECURSIVE replace(_, _)
replace(s, old) ==
    IF s = <<>> THEN <<>>
    ELSE (IF Head(s) = old THEN <<>> ELSE <<Head(s)>>) \o replace(Tail(s), old)

\* the index after the longest run of characters of set that starts at i
RECURSIVE RunEnd(_, _, _)
RunEnd(s, i, set) ==
    IF i <= Len(s) /\ s[i] \in set THEN RunEnd(s, i + 1, set) ELSE i

\* the number written by the digits s[i], ..., s[j-1]
RECURSIVE Number(_, _, _)
Number(s, i, j) ==
    IF j <= i THEN 0 ELSE Number(s, i, j - 1) * 10 + DigitValue(s[j - 1])

\* float(text): surrounding whitespace, an optional minus sign, digits with
\* an optional decimal point and at least one digit; anything else is a
\* ValueError
float(text) ==
    LET s == strip(text)
        neg == s # <<>> /\ s[1] = "-"
        b == IF neg THEN 2 ELSE 1
        d == RunEnd(s, b, Digits)
        point == d <= Len(s) /\ s[d] = "."
        f == IF point THEN RunEnd(s, d + 1, Digits) ELSE d
        places == IF point THEN f - (d + 1) ELSE 0
        num == Number(s, b, d) * 10^places
                 + (IF point THEN Number(s, d + 1, f) ELSE 0)
    IN  IF f = Len(s) + 1 /\ (d - b) + places > 0
        THEN Returned([num |-> IF neg THEN 0 - num ELSE num,
                       places |-> places])
        ELSE Raised("ValueError")

\* extract_price of Dockers_scraper, multi_scraper and scraper
extract_price(price_text) ==
    LET cleaned == replace(replace(strip(price_text), "$"), ",")
        parsed == float(cleaned)
    IN  IF parsed.kind = "exc" THEN Returned(None)
        ELSE Returned(Some(parsed.val))

\* where the group of \$?([\d,]+\.?\d*) starts when the pattern matches at
\* i, and 0 when it does not match there
GroupStart(s, i) ==
    IF s[i] \in Digits \cup {","} THEN i
    ELSE IF i < Len(s) /\ s[i] = "$" /\ s[i + 1] \in Digits \cup {","}
         THEN i + 1
         ELSE 0

\* re.search: the leftmost match, from position i on
RECURSIVE re_search(_, _)
re_search(s, i) ==
    IF i > Len(s) THEN 0
    ELSE IF GroupStart(s, i) # 0 THEN GroupStart(s, i)
         ELSE re_search(s, i + 1)

\* match.group(1) of a match whose group starts at g
group(s, g) ==
    LET r == RunEnd(s, g, Digits \cup {","})
        e == IF r <= Len(s) /\ s[r] = "." THEN RunEnd(s, r + 1, Digits) ELSE r
    IN  SubSeq(s, g, e - 1)

\* extract_price of amazon_scraper, jcpenney_scraper and macys_scraper
retailer_extract_price(price_text) ==
    IF price_text = <<>> THEN Returned(None)
    ELSE LET g == re_search(price_text, 1)
         IN  IF g = 0 THEN Returned(None)
             ELSE LET parsed == float(replace(group(price_text, g), ","))
                  IN  IF parsed.kind = "exc" THEN Returned(None)
                      ELSE Returned(Some(parsed.val))

ParseInit == site = TheSite /\ MasterInit

\* one call of extract_price on a text
extract_price_main ==
    \E text \in Texts :
        /\ ret = NoCall
        /\ DirectCall("extract_price", text, extract_price(text))

retailer_extract_price_main ==
    \E text \in Texts :
        /\ ret = NoCall
        /\ DirectCall("retailer_extract_price", text, retailer_extract_price(text))

ParseNext == extract_price_main \/ retailer_extract_price_main

ParseSpec == ParseInit /\ [][ParseNext]_vars

(***************************************************************************)
(* scraper.py: scrape_dockers(max_pages), the scrape over numbered pages.  *)
(* The frame of the call (current_url, page_count, products) is kept in    *)
(* the call's record, with the list of the URLs fetched so far.            *)
(***************************************************************************)
MaxPages == 3

BASE_URL == "https://www.dockers.com"

PRODUCTS_ENDPOINT == "/en/shop/mens/pants"

\* the hrefs a next-page link can carry
ListingHrefs == {PRODUCTS_ENDPOINT, "/en/shop/mens/pants?page=2", "/en/shop/mens/pants?page=3"}

\* urljoin(BASE_URL, href) for an absolute path
urljoin(base, href) == base \o href

ListingUrls == {urljoin(BASE_URL, h) : h \in ListingHrefs}

\* the product elements of a page, each given by the name its link carries
\* (None: no link or no name)
ElementLists == {<<>>, <<Some("Pants A")>>, <<None, Some("Pants B")>>}

\* what a listing URL serves: a failed request, or a page with product
\* elements and possibly a next-page link
ListingPages ==
    {[status |-> "http_error", elements |-> <<>>, next |-> None]}
        \cup {[status |-> "ok", elements |-> e, next |-> n] :
                 e \in ElementLists, n \in {None} \cup {Some(h) : h \in ListingHrefs}}

\* sites whose next-page links form any graph, cycles included
PagedSites ==
    {[links |-> TheSite.links, page |-> TheSite.page, dockers |-> TheSite.dockers,
      listing |-> f] : f \in [ListingUrls -> ListingPages]}

\* fetch_page(url): the page, or None when the request fails
fetch_page(url) ==
    IF site.listing[url].status = "ok" THEN Some(site.listing[url]) ELSE None

\* extract_product_data, of which only the name is kept: None for an element
\* without a name
extract_product_data(product_element) ==
    IF product_element = None THEN None ELSE Some([name |-> product_element[1]])

\* "for product_elem in product_elements: ... if product_data:
\* products.append(product_data)"
RECURSIVE ProcessElements(_, _, _)
ProcessElements(product_elements, i, products) ==
    IF i > Len(product_elements) THEN products
    ELSE LET product_data == extract_product_data(product_elements[i])
         IN  ProcessElements(product_elements, i + 1,
                             IF product_data # None
                             THEN Append(products, product_data[1])
                             ELSE products)

\* get_next_page_url(soup, current_page)
get_next_page_url(soup) ==
    IF soup.next # None THEN Some(urljoin(BASE_URL, soup.next[1])) ELSE None

\* a loop that makes one round more
WhileCondition_OneMore(current_url, page_count, max_pages) ==
    current_url # None /\ page_count <= max_pages

\* "while current_url and page_count < max_pages"
WhileCondition(current_url, page_count, max_pages) ==
    current_url # None /\ page_count < max_pages

PagedInit == site \in PagedSites /\ MasterInit

PagedFrame == ret.fn = "scrape_dockers(max_pages)"

PagedUnchanged ==
    UNCHANGED <<site, results, errors, mainpc, idx, tpc, frame, dockers_url,
                search_term, runs, escapes, met, called, results0, errors0, writes>>

\* the call, up to the while loop
paged_call ==
    /\ ret = NoCall
    /\ \E max_pages \in 0..MaxPages :
          ret' = [fn |-> "scrape_dockers(max_pages)", arg |-> max_pages,
                  pc |-> "while", products |-> <<>>,
                  current_url |-> Some(urljoin(BASE_URL, PRODUCTS_ENDPOINT)),
                  page_count |-> 0, fetched |-> <<>>]
    /\ PagedUnchanged

\* one round of the loop: the fetch, then a break or the products of the
\* page and the next-page link
paged_round ==
    /\ PagedFrame /\ ret.pc = "while"
    /\ WhileCondition(ret.current_url, ret.page_count, ret.arg)
    /\ LET soup == fetch_page(ret.current_url[1])
           fetched == Append(ret.fetched, ret.current_url[1])
       IN  IF soup = None \/ soup[1].elements = <<>>
           THEN ret' = [ret EXCEPT !.pc = "break", !.fetched = fetched]
           ELSE ret' = [ret EXCEPT
                          !.fetched = fetched,
                          !.products = ProcessElements(soup[1].elements, 1, @),
                          !.current_url = get_next_page_url(soup[1]),
                          !.page_count = @ + 1]
    /\ PagedUnchanged

\* "return products", after a break or when the loop condition fails
paged_return ==
    /\ PagedFrame
    /\ \/ ret.pc = "break"
       \/ ret.pc = "while" /\ ~WhileCondition(ret.current_url, ret.page_count, ret.arg)
    /\ ret' = [ret EXCEPT !.pc = "returned"]
    /\ PagedUnchanged

PagedNext == paged_call \/ paged_round \/ paged_return

\* the call runs on: a round or the return that can be made is made
PagedSpec == PagedInit /\ [][PagedNext]_vars /\ WF_vars(paged_round \/ paged_return)

(***************************************************************************)
(* Properties.                                                             *)
(***************************************************************************)
AfterRun == mainpc = "returned"
FirstRun == runs = 1

CallRaised(t) == called[t].kind = "exc"
CallReturned(t) == called[t].kind = "ret"

\* the source a thread is responsible for
SourceOf(t) ==
    CASE t = "DockersScraper" -> "dockers"
      [] t = "AmazonScraper" -> "amazon"
      [] t = "JCPenneyScraper" -> "jcpenney"
      [] OTHER -> "macys"

OwnerOf(s) == CHOOSE t \in ThreadSet : SourceOf(t) = s

\* the name under which a thread's failure is reported
RetailerOf(t) ==
    CASE t = "DockersScraper" -> "Dockers"
      [] t = "AmazonScraper" -> "Amazon"
      [] t = "JCPenneyScraper" -> "JCPenney"
      [] OTHER -> "Macy's"

ListingThreads == {t \in ThreadSet : SourceOf(t) \in ListingSources}

\* the records a source's adapter handed to its thread in this run
Delivered(t) ==
    IF SourceOf(t) = "dockers" THEN <<called[t].val>> ELSE called[t].val

\* the entries of errors that name a retailer
EntriesOf(errs, retailer) == {i \in 1..Len(errs) : errs[i][1] = retailer}

\* C1: when the adapter call of one source raises, after run_all_scrapers has
\* returned the list of every other source equals exactly what that source's
\* adapter returned.
C1_FailureIsolation ==
    (AfterRun /\ \E t \in ThreadSet : CallRaised(t)) =>
        \A u \in ThreadSet : CallReturned(u) => results[SourceOf(u)] = Delivered(u)

\* The same on the first run of a MasterScraper, where no earlier run has left
\* records behind.
FailureIsolationFirstRun == FirstRun => C1_FailureIsolation

C3_TaskFailureRecorded ==
    (AfterRun /\ FirstRun) =>
        \A t \in ThreadSet :
            /\ CallRaised(t) =>
                  /\ Cardinality(EntriesOf(errors, RetailerOf(t))) = 1
                  /\ \A i \in EntriesOf(errors, RetailerOf(t)) :
                        errors[i] = <<RetailerOf(t), called[t].msg>>
                  /\ results[SourceOf(t)] = <<>>
            /\ CallReturned(t) => EntriesOf(errors, RetailerOf(t)) = {}

C3_Witness ==
    /\ AfterRun /\ FirstRun
    /\ CallRaised("AmazonScraper") /\ CallRaised("DockersScraper")
    /\ CallReturned("JCPenneyScraper") /\ results["jcpenney"] # <<>>

\* C4: run_all_scrapers returns only when all four threads have terminated,
\* and from the state in which it has returned no step changes a per-source
\* list or errors (the only step left is a new call, which sets the timestamp
\* and the search term).
C4_JoinAllBarrier ==
    [][ /\ mainpc' = "returned" => \A t \in ThreadSet : tpc'[t] = "done"
        /\ mainpc = "returned" =>
              /\ errors' = errors
              /\ \A s \in SourceSet : results'[s] = results[s] ]_vars

C4_Witness ==
    /\ AfterRun
    /\ \A t \in ThreadSet : tpc[t] = "done"
    /\ writes["amazon"] # <<>>
    /\ Len(errors) > Len(errors0)

\* C5: whatever the adapters do (records, an empty list, an exception), a
\* run_all_scrapers call that has begun returns, and no exception reaches its
\* caller.
C5_RunIsTotal ==
    /\ [](mainpc # "raised")
    /\ (mainpc = "start") ~> (mainpc = "returned")

C5_Witness ==
    /\ AfterRun
    /\ met["AmazonScraper"] = "ok" /\ results["amazon"] # <<>>
    /\ met["JCPenneyScraper"] = "search_fail"
    /\ met["MacysScraper"] = "escape"
    /\ CallRaised("DockersScraper")

\* every retailer's request failed in this run: the Dockers page could not be
\* retrieved and each search request failed
AllRequestsFailed ==
    /\ met["DockersScraper"] = "http_error"
    /\ \A t \in ListingThreads : met[t] = "search_fail"

\* C6 as stated: when every source's request fails, all four lists are empty
\* and errors holds one entry for each of the four sources.
C6_TotalFailure_AsStated ==
    (AfterRun /\ AllRequestsFailed) =>
        /\ \A s \in SourceSet : results[s] = <<>>
        /\ \A t \in ThreadSet : Cardinality(EntriesOf(errors, RetailerOf(t))) = 1

\* C6 as amended: when every source's request fails in a run, no per-source
\* list gains a record in that run and errors gains the Dockers entry only;
\* a failed search request adds no entry for Amazon, JCPenney or Macy's.
C6_TotalFailure ==
    (AfterRun /\ AllRequestsFailed) =>
        /\ \A s \in SourceSet : results[s] = results0[s]
        /\ errors = Append(errors0, <<"Dockers", TypeErrorText>>)

C6_Witness == AfterRun /\ AllRequestsFailed /\ FirstRun /\ Len(errors) = 1

\* C7: when the Dockers page can be retrieved and parsed, after the run
\* results['dockers'] holds exactly one record, its url is dockers_url, and
\* errors has no Dockers entry.
C7_DockersUrlScraped ==
    (AfterRun /\ met["DockersScraper"] = "ok") =>
        /\ Len(results["dockers"]) = 1
        /\ results["dockers"][1].url = dockers_url
        /\ EntriesOf(errors, "Dockers") = {}

C9_WithinSourceOrder ==
    (AfterRun /\ FirstRun) =>
        \A t \in ListingThreads : CallReturned(t) => results[SourceOf(t)] = called[t].val

C9_Witness ==
    /\ AfterRun /\ FirstRun
    /\ Len(results["amazon"]) = 2
    /\ results["amazon"][1] # results["amazon"][2]
    /\ results["amazon"][1].url = Some(BaseUrl("amazon") \o "/p1")
    /\ results["jcpenney"] # <<>> /\ results["macys"] # <<>>

\* C10: when a run_all_scrapers call begins, every per-source list and errors
\* are empty.
C10_FreshAggregatePerRun ==
    mainpc \in {"start", "join"} =>
        /\ \A s \in SourceSet : results0[s] = <<>>
        /\ errors0 = <<>>

(***************************************************************************)
(* The aggregate methods.                                                  *)
(***************************************************************************)
\* the records of the four per-source lists, with the key of their list, in
\* the order dockers, amazon, jcpenney, macys and within a list in list order
AllRecords == Flatten(results, 1)

\* a record's price is defined: present, whatever the amount
PriceDefined(product) == DictGet(product, "price") # None

DefinedRecords ==
    LET Defined(e) == PriceDefined(e.product) IN SelectSeq(AllRecords, Defined)

LowestReturned == ret.fn = "get_lowest_price" /\ ret.out.kind = "ret"

\* C11: get_lowest_price returns a record of the four lists whose price is
\* the minimum over all records with a defined price (any amount from 0 up),
\* and returns None exactly when no record has a defined price.
C11_LowestIsMinimum ==
    ret.fn = "get_lowest_price" =>
        /\ ret.out.kind = "ret"
        /\ (ret.out.val = None) <=> (DefinedRecords = <<>>)
        /\ ret.out.val # None =>
              /\ \E i \in 1..Len(DefinedRecords) :
                    ret.out.val = WithRetailerKey(DefinedRecords[i].product,
                                                  DefinedRecords[i].retailer_key)
              /\ \A i \in 1..Len(DefinedRecords) :
                    ret.out.val.price[1] <= DefinedRecords[i].product.price[1]

\* the same over the records whose price is defined and not 0
LowestIsMinimumAboveZero ==
    LET Positive(e) == PriceDefined(e.product) /\ e.product.price[1] # 0
        positive == SelectSeq(AllRecords, Positive)
    IN  ret.fn = "get_lowest_price" =>
        /\ ret.out.kind = "ret"
        /\ (ret.out.val = None) <=> (positive = <<>>)
        /\ ret.out.val # None =>
              /\ \E i \in 1..Len(positive) :
                    ret.out.val = WithRetailerKey(positive[i].product,
                                                  positive[i].retailer_key)
              /\ \A i \in 1..Len(positive) :
                    ret.out.val.price[1] <= positive[i].product.price[1]

\* the positions in AllRecords of the records with the price of the record
\* get_lowest_price returned
AtReturnedPrice ==
    {i \in 1..Len(AllRecords) :
        DictGet(AllRecords[i].product, "price") = ret.out.val.price}

\* C12: when several records share the price of the record get_lowest_price
\* returns, the record returned is the first of them in the order dockers,
\* amazon, jcpenney, macys and, within a source, in list order.
C12_FirstOfEqualPrices ==
    (LowestReturned /\ ret.out.val # None) =>
        \E i \in AtReturnedPrice :
            /\ \A j \in AtReturnedPrice : i <= j
            /\ ret.out.val = WithRetailerKey(AllRecords[i].product,
                                             AllRecords[i].retailer_key)

\* a record was returned whose price a later record of the same source and a
\* record of a later source have too
C12_Witness ==
    /\ LowestReturned /\ ret.out.val # None
    /\ \E i, j, k \in AtReturnedPrice :
          /\ i < j /\ j < k
          /\ AllRecords[i].retailer_key = AllRecords[j].retailer_key
          /\ AllRecords[j].retailer_key # AllRecords[k].retailer_key
          /\ ret.out.val = WithRetailerKey(AllRecords[i].product,
                                           AllRecords[i].retailer_key)

ComparisonReturned == ret.fn = "get_price_comparison" /\ ret.out.kind = "ret"

\* the records of a list that have the price v, in list order
AtPrice(list, v) ==
    LET Same(product) == DictGet(product, "price") = v IN SelectSeq(list, Same)

\* the records of the four lists in the order of AllRecords
AllProducts == [i \in 1..Len(AllRecords) |-> AllRecords[i].product]

\* C13: the list get_price_comparison returns is in ascending order of price,
\* and records of equal price are in the order they have in the four lists
\* taken in the order dockers, amazon, jcpenney, macys.
C13_AscendingAndStable ==
    ComparisonReturned =>
        /\ \A i, j \in 1..Len(ret.out.val) :
              i < j => ret.out.val[i].price[1] <= ret.out.val[j].price[1]
        /\ \A i \in 1..Len(ret.out.val) :
              AtPrice(ret.out.val, ret.out.val[i].price) =
                  AtPrice(AllProducts, ret.out.val[i].price)

\* a list was returned that holds two different records of one price and a
\* cheaper record that comes after them in the four lists
C13_Witness ==
    /\ ComparisonReturned
    /\ \E i, j, k \in 1..Len(AllProducts) :
          /\ i < j /\ j < k
          /\ AllProducts[i] # AllProducts[j]
          /\ HasPrice(AllProducts[i]) /\ HasPrice(AllProducts[k])
          /\ AllProducts[i].price = AllProducts[j].price
          /\ AllProducts[k].price[1] < AllProducts[i].price[1]
          /\ ret.out.val[1] = AllProducts[k]

\* how many times x occurs in a list
Count(list, x) == Cardinality({i \in 1..Len(list) : list[i] = x})

\* C14: the list get_price_comparison returns is a permutation of exactly the
\* records of the four lists that have a defined price, a price of 0
\* included, and holds no record without a price.
C14_PermutationOfDefined ==
    LET defined == [i \in 1..Len(DefinedRecords) |-> DefinedRecords[i].product]
    IN  ret.fn = "get_price_comparison" =>
        /\ ret.out.kind = "ret"
        /\ \A x \in Range(defined) \cup Range(ret.out.val) :
              Count(ret.out.val, x) = Count(defined, x)

\* the same for the records whose price is defined and not 0
PermutationAboveZero ==
    LET Positive(product) == PriceDefined(product) /\ product.price[1] # 0
        positive == SelectSeq(AllProducts, Positive)
    IN  ret.fn = "get_price_comparison" =>
        /\ ret.out.kind = "ret"
        /\ \A x \in Range(positive) \cup Range(ret.out.val) :
              Count(ret.out.val, x) = Count(positive, x)

AggregateMethods == {"get_lowest_price", "get_price_comparison"}

\* the value an aggregate method returns when there is nothing to return
NothingToReturn(fn) == IF fn = "get_lowest_price" THEN None ELSE <<>>

\* C15: whatever run_all_scrapers left in results (records carrying an
\* error, records with absent fields, what the Dockers task stored),
\* get_lowest_price and get_price_comparison return a value and never raise;
\* when no record has a price they return None and the empty list.
C15_AggregatesNeverRaise ==
    ret.fn \in AggregateMethods =>
        /\ ret.out.kind = "ret"
        /\ DefinedRecords = <<>> => ret.out.val = NothingToReturn(ret.fn)

\* after a second run in which a search adapter raised, with a record that
\* carries an error and no price in the lists, an aggregate method returned
C15_Witness ==
    /\ AfterRun /\ runs = MaxRuns
    /\ ret.fn \in AggregateMethods /\ ret.out.kind = "ret"
    /\ \E i \in 1..Len(AllProducts) :
          AllProducts[i].error # None /\ AllProducts[i].price = None
    /\ \E t \in ThreadSet : met[t] = "escape"

(***************************************************************************)
(* The adapters.                                                           *)
(***************************************************************************)
DockersReturned ==
    ret.fn = "scrape_product" /\ ret.out.kind = "ret" /\ ret.out.val # None

\* C16: the discount percentage of a record is defined only when price and
\* original price are both present and the original price is larger; it is
\* then (original - price) / original * 100 rounded to 2 decimals (40 and 50
\* give 20.00); in every other case it is absent, never zero or negative.
C16_DiscountPercentage ==
    DockersReturned =>
        LET p == ret.out.val
            both == p.current_price # None /\ p.original_price # None
        IN  /\ (p.discount_percentage # None) <=>
                   (both /\ p.original_price[1] > p.current_price[1])
            /\ p.discount_percentage # None =>
                 LET d == p.discount_percentage[1]
                     num == (p.original_price[1] - p.current_price[1]) * Hundredths
                     diff == d * p.original_price[1] - num
                 IN  /\ d >= 0
                     /\ 2 * diff <= p.original_price[1]
                     /\ -2 * diff <= p.original_price[1]
            /\ (both /\ p.current_price = Some(4000) /\ p.original_price = Some(5000))
                   => p.discount_percentage = Some(2000)

\* scrape_product returned a record with price 40.00, original price 50.00
\* and a discount of 20.00 percent
C16_Witness ==
    /\ DockersReturned
    /\ ret.out.val.current_price = Some(4000)
    /\ ret.out.val.original_price = Some(5000)
    /\ ret.out.val.discount_percentage = Some(2000)

\* C17: every element of a per-source list of results is a record with a
\* non-null retailer and a non-null url, for all four sources and whatever
\* the adapters met.
C17_RetailerAndUrlPresent ==
    \A s \in SourceSet : \A i \in 1..Len(results[s]) :
        /\ results[s][i] # None
        /\ DictGet(results[s][i], "retailer") # None
        /\ DictGet(results[s][i], "url") # None

\* a run has returned in which the Dockers call raised, one search request
\* failed, and the lists hold a record of a good page and one that carries
\* an error
C17_Witness ==
    /\ AfterRun
    /\ CallRaised("DockersScraper")
    /\ \E t \in ListingThreads : met[t] = "search_fail"
    /\ \E i, j \in 1..Len(AllProducts) :
          AllProducts[i].error = None /\ AllProducts[j].error # None

ProductReturned == ret.fn = "scrape_retailer_product" /\ ret.out.kind = "ret"

\* C18: the name of every record scrape_amazon_product,
\* scrape_jcpenney_product and scrape_macys_product return is never null: the
\* extracted string or 'Unknown', on the success path and on every failure
\* path.
C18_NameNeverNull == ProductReturned => ret.out.val.name # None

\* the name of a record without an error is the extracted string or 'Unknown'
NameOnSuccess ==
    (ProductReturned /\ ret.out.val.error = None) =>
        /\ ret.out.val.name \notin {None, Some("")}
        /\ ProductPage(ret.arg[2]).title \in {None, Some("")} =>
               ret.out.val.name = Some("Unknown")

\* C19: no adapter entry point (scrape_product, scrape_<retailer>_product,
\* search_<retailer>_dockers) lets an exception reach its caller, whatever
\* the page fetch met (HTTP error status, timeout, connection failure) and
\* whatever failed during parsing.
C19_NoExceptionEscapes == ret.fn # "none" => ret.out.kind = "ret"

\* a search returned two records whose pages raised in the product function,
\* one caught by a named except clause and one by "except Exception"
C19_Witness ==
    /\ ret.fn = "search_retailer_dockers" /\ ret.out.kind = "ret"
    /\ \E i, j \in 1..Len(ret.out.val) :
          /\ ret.out.val[i].error = Some("Request Timeout")
          /\ ret.out.val[j].error = Some("ConnectionError")

SearchReturned ==
    ret.fn = "search_retailer_dockers" /\ ret.arg[2] = "ok" /\ ret.out.kind = "ret"

\* the absolute links the search page of the retailer searched carries
LinksSearched == AbsoluteLinks(BaseUrl(ret.arg[1]), SearchPageLinks(ret.arg[1]))

\* the number of detail pages the search attempts: of the links as listed
\* for Amazon, of the distinct links for the other two, at most DetailLimit
Attempted ==
    IF ret.arg[1] = "amazon" THEN Min(DetailLimit, Len(LinksSearched))
    ELSE Min(DetailLimit, Cardinality(Range(LinksSearched)))

\* C20: for every detail page a search adapter attempts (at most the first 3
\* links) exactly one record is in the returned list; when the page cannot
\* be retrieved or parsed the record has error set and url equal to the
\* attempted link, and the remaining links are still attempted.
C20_OneRecordPerAttempt ==
    SearchReturned =>
        /\ Len(ret.out.val) = Attempted
        /\ \A i \in 1..Len(ret.out.val) :
              /\ ret.out.val[i].url # None
              /\ ret.out.val[i].url[1] \in Range(LinksSearched)
              /\ ret.arg[1] = "amazon" => ret.out.val[i].url = Some(LinksSearched[i])
              /\ ret.arg[1] # "amazon" =>
                    \A j \in 1..Len(ret.out.val) :
                        ret.out.val[i].url = ret.out.val[j].url => i = j
              /\ (ProductPage(ret.out.val[i].url[1]).status # "ok")
                    <=> (ret.out.val[i].error # None)

\* a search returned DetailLimit records, a record of a page that could not
\* be retrieved followed by a record of a page that could
C20_Witness ==
    /\ SearchReturned
    /\ Len(ret.out.val) = DetailLimit
    /\ \E i, j \in 1..Len(ret.out.val) :
          i < j /\ ret.out.val[i].error # None /\ ret.out.val[j].error = None

\* the closed vocabulary of availability, and its values for "not known"
AvailabilityValues == {"In Stock", "Out of Stock", "Unknown", "Check Site"}
AvailabilityDefaults == {"Check Site", "Unknown"}

\* the record of a product function is of a page without availability element
NoAvailabilityElement ==
    ProductReturned /\ ret.out.val.error = None
        /\ ProductPage(ret.arg[2]).avail = "absent"

\* the Dockers page has neither out-of-stock element nor availability meta tag
NoDockersAvailabilityElement ==
    DockersReturned /\ ~ret.arg.oos /\ ret.arg.availmeta = "absent"

\* C21: the availability of every record an adapter produces is one of In
\* Stock, Out of Stock, Unknown, Check Site, and when the page has no
\* availability element it is Check Site or Unknown, never In Stock or Out of
\* Stock.
C21_AvailabilityClosedSet ==
    /\ ProductReturned => ret.out.val.availability \in AvailabilityValues
    /\ NoAvailabilityElement => ret.out.val.availability \in AvailabilityDefaults
    /\ DockersReturned => ret.out.val.availability \in AvailabilityValues
    /\ NoDockersAvailabilityElement => ret.out.val.availability \in AvailabilityDefaults

\* the same without the default of the Dockers adapter
AvailabilityOfListingRecords ==
    /\ ProductReturned => ret.out.val.availability \in AvailabilityValues
    /\ NoAvailabilityElement => ret.out.val.availability = "Check Site"
    /\ (ProductReturned /\ ret.out.val.error # None) => ret.out.val.availability = "Unknown"
    /\ DockersReturned => ret.out.val.availability \in {"In Stock", "Out of Stock"}

\* the detail URLs a search call fetched, in the order of the fetches: every
\* fetch leaves one record with its url (C20)
Fetched == [i \in 1..Len(ret.out.val) |-> ret.out.val[i].url[1]]

NoUrlFetchedTwice == \A i, j \in 1..Len(Fetched) : Fetched[i] = Fetched[j] => i = j

\* C22: within one call of search_amazon_dockers, search_jcpenney_dockers or
\* search_macys_dockers no detail URL is fetched more than once, even when the
\* search page lists the same link several times.
C22_LinksDeduplicated == SearchReturned => NoUrlFetchedTwice

\* the same for the two adapters that collect the links in a set
LinksDeduplicatedBySet ==
    (SearchReturned /\ ret.arg[1] # "amazon") => NoUrlFetchedTwice

\* C23: one call of a search adapter fetches at most 3 detail pages and
\* returns at most 3 records, however many links the search page carries;
\* hence after one run on a fresh MasterScraper the list of each listing
\* source has at most 3 records.
C23_BoundedFanOut ==
    /\ \A t \in ListingThreads :
          CallReturned(t) => Len(called[t].val) <= DetailLimit
    /\ FirstRun => \A s \in ListingSources : Len(results[s]) <= DetailLimit

\* the first run on a site whose Amazon and JCPenney search pages carry more
\* than DetailLimit links has returned, with DetailLimit records in each list
C23_Witness ==
    /\ AfterRun /\ FirstRun
    /\ Len(SearchPageLinks("amazon")) > DetailLimit
    /\ Cardinality(Range(SearchPageLinks("jcpenney"))) > DetailLimit
    /\ Len(results["amazon"]) = DetailLimit
    /\ Len(results["jcpenney"]) = DetailLimit

PriceReturned == ret.fn \in {"extract_price", "retailer_extract_price"}

\* C24: for every text each extract_price returns None or a non-negative
\* amount and never raises.
C24_PriceTotalNonNegative ==
    PriceReturned =>
        /\ ret.out.kind = "ret"
        /\ ret.out.val = None \/ ret.out.val[1].num >= 0

\* no extract_price raises, and the ones of the listing adapters return None
\* or a non-negative amount
PriceTotal ==
    PriceReturned =>
        /\ ret.out.kind = "ret"
        /\ ret.fn = "retailer_extract_price" =>
              ret.out.val = None \/ ret.out.val[1].num >= 0

Saved == ret.fn = "save_results" /\ ret.written # None

\* the aggregate of the MasterScraper
AggregateResult ==
    [timestamp |-> results["timestamp"], query |-> results["search_term"],
     bySource |-> [s \in SourceSet |-> results[s]], taskErrors |-> errors]

\* the aggregate read back from the file save_results wrote
ParsedResult ==
    LET back == json_load(ret.written[1])
    IN  [timestamp |-> DictGet(back, "timestamp"),
         query |-> DictGet(back, "search_term"),
         bySource |-> [s \in SourceSet |-> DictGet(back, s)],
         taskErrors |-> DictGet(back, "errors")]

\* C25: the aggregate that save_results serialized and that is parsed back
\* equals the aggregate of the run field for field: timestamp, query, every
\* source's record sequence and the task errors.
C25_RoundTrip == Saved => ParsedResult = AggregateResult

\* what is read back is the results dict: timestamp, query and every
\* source's record sequence
RoundTripOfResults ==
    Saved => /\ json_load(ret.written[1]) = results
             /\ \A k \in {"timestamp", "query", "bySource"} :
                   ParsedResult[k] = AggregateResult[k]

\* a step in which an aggregate method was called and returned
AggregateStep == ret' # ret /\ ret'.fn \in AggregateMethods

\* C26: get_lowest_price and get_price_comparison leave results and errors
\* unchanged, so that each returns after the call what it returned before,
\* however often and in whatever order they are called.
C26_AggregatorPure ==
    [][AggregateStep =>
         /\ results' = results
         /\ errors' = errors
         /\ ret'.out = IF ret'.fn = "get_lowest_price" THEN LowestPrice(results)
                       ELSE PriceComparison(results)
         /\ LowestPrice(results') = LowestPrice(results)
         /\ PriceComparison(results') = PriceComparison(results)]_vars

\* get_price_comparison has returned priced records after a run that left a
\* task error
C26_Witness ==
    /\ AfterRun
    /\ ret.fn = "get_price_comparison"
    /\ ret.out.kind = "ret" /\ Len(ret.out.val) >= 2
    /\ errors # <<>>

\* the orders in which the four threads of a run can complete
CompletionOrders ==
    {o \in [1..Len(threads) -> ThreadSet] :
        \A i, j \in 1..Len(threads) : o[i] = o[j] => i = j}

\* self.results as the run found it, search term and timestamp set
RunBase ==
    [k \in DOMAIN results |-> IF k \in SourceSet THEN results0[k] ELSE results[k]]

\* self.results after the threads o[i], o[i+1], ... have completed, one after
\* the other in this order, each with the outcome its adapter call had
RECURSIVE CompleteIn(_, _, _)
CompleteIn(res, o, i) ==
    IF i > Len(o) THEN res
    ELSE LET key == ResultKey(Target(o[i]))
             out == called[o[i]]
         IN  CompleteIn(IF out.kind # "ret" THEN res
                        ELSE IF Target(o[i]) = "scrape_dockers"
                        THEN [res EXCEPT ![key] = list_append(@, out.val)]
                        ELSE [res EXCEPT ![key] = list_extend(@, out.val)],
                        o, i + 1)

\* get_lowest_price has returned a record after a run, and records of two
\* sources or more have its price
TiedMinimum ==
    /\ AfterRun
    /\ LowestReturned /\ ret.out.val # None
    /\ \E i, j \in AtReturnedPrice :
          AllRecords[i].retailer_key # AllRecords[j].retailer_key

\* C27: when records of several sources share the minimum price, the record
\* get_lowest_price returns depends on the order in which the threads
\* completed: the same adapter outputs, completed in another order, give
\* another record.
C27_DependsOnCompletionOrder ==
    TiedMinimum =>
        \E o \in CompletionOrders :
            LowestPrice(CompleteIn(RunBase, o, 1)) # ret.out

\* C27 as amended: the record get_lowest_price returns after a run is fixed
\* by the adapter outputs; in whatever order the threads complete, the lists
\* are the same and so is the record returned.
C27_IndependentOfCompletionOrder ==
    (AfterRun /\ ret.fn = "get_lowest_price") =>
        \A o \in CompletionOrders :
            /\ CompleteIn(RunBase, o, 1) = results
            /\ LowestPrice(CompleteIn(RunBase, o, 1)) = ret.out

\* records of Amazon and Macy's share the minimum price and Amazon's is the
\* one returned
C27_Witness ==
    /\ TiedMinimum
    /\ ret.out.val.retailer_key = "amazon"
    /\ \E i \in AtReturnedPrice : AllRecords[i].retailer_key = "macys"

\* the threads of the run whose adapter call raised
RaisedThreads == {t \in ThreadSet : CallRaised(t)}

\* C28: no entry of the shared error list is lost: in every interleaving,
\* after run_all_scrapers on a fresh MasterScraper errors has as many entries
\* as threads whose adapter call raised, one for each failed source; only
\* their order varies.
C28_NoErrorLost ==
    (AfterRun /\ FirstRun) =>
        /\ Len(errors) = Cardinality(RaisedThreads)
        /\ \A t \in RaisedThreads :
              \E i \in 1..Len(errors) :
                  /\ errors[i][1] = RetailerOf(t)
                  /\ \A j \in 1..Len(errors) : errors[j][1] = RetailerOf(t) => j = i

\* two threads failed in the first run, and the one started later appended
\* its entry first
C28_Witness ==
    /\ AfterRun /\ FirstRun
    /\ Len(errors) = 2
    /\ errors[1][1] = "Amazon" /\ errors[2][1] = "Dockers"

\* the rounds whose fetch failed or found no product element
BadRounds ==
    {i \in 1..Len(ret.fetched) :
        \/ site.listing[ret.fetched[i]].status # "ok"
        \/ site.listing[ret.fetched[i]].elements = <<>>}

\* the products of the pages fetched in rounds i, i+1, ... that gave any
RECURSIVE ProductsFrom(_)
ProductsFrom(i) ==
    IF i > Len(ret.fetched) THEN <<>>
    ELSE (IF i \in BadRounds THEN <<>>
          ELSE LET Named(e) == e # None
                   named == SelectSeq(site.listing[ret.fetched[i]].elements, Named)
               IN  [k \in 1..Len(named) |-> [name |-> named[k][1]]])
         \o ProductsFrom(i + 1)

\* C29: scrape_dockers(max_pages) of scraper.py terminates, having fetched
\* at most max_pages pages, also when the next-page links form a cycle; a
\* page that fails to fetch or has no product element is the last one
\* fetched, and the products of the pages before it are returned.
C29_PagingTerminates ==
    /\ [](PagedFrame =>
            /\ Len(ret.fetched) <= ret.arg
            /\ \A i \in BadRounds : i = Len(ret.fetched)
            /\ ret.products = ProductsFrom(1))
    /\ (PagedFrame /\ ret.pc = "while") ~> (PagedFrame /\ ret.pc = "returned")

\* a call that went round a cycle of next-page links until max_pages pages
\* were fetched, and returned their products
C29_Witness ==
    /\ PagedFrame /\ ret.pc = "returned"
    /\ ret.arg >= 2 /\ Len(ret.fetched) = ret.arg
    /\ \E i, j \in 1..Len(ret.fetched) : i < j /\ ret.fetched[i] = ret.fetched[j]
    /\ Len(ret.products) >= ret.arg

====
